---------------------------- MODULE Spec2Model ----------------------------
(***************************************************************************)
(* Model of RegionConverter (src/regions_to_countries.py): the cascading   *)
(* region -> (corrected name, country, iso) lookup with its in-memory      *)
(* cache, the manual override table, the geo table, the remote search      *)
(* service and the write-back of the cache at teardown.                    *)
(*                                                                         *)
(* A Python str is a sequence of one-character strings, so that            *)
(* str.replace, re.sub and str.contains are computed character by          *)
(* character.  Python's None is the value None below, which is no str.     *)
(***************************************************************************)
EXTENDS Integers, Sequences, FiniteSets, TLC

(***************************************************************************)
(* Values                                                                  *)
(***************************************************************************)

\* Python's None: a one-element sequence whose element is no character, so
\* that it compares with every str and equals none.
None == << "<None>" >>

\* The empty str "".
EmptyStr == << >>

\* A character that the latin-1 codec cannot encode (U+015F, s-cedilla).
SCedilla == "U+015F"

\* Characters outside latin-1 that occur in the inputs.
NonLatin1 == { SCedilla }

\* Characters str.rstrip() removes.
Whitespace == { " ", "\t", "\n" }

\* self.suffixes, in list order.
suffixes ==
  << <<"P","r","o","v","i","n","c","e">>,
     <<"R","e","g","i","o","n">>,
     <<"D","i","s","t","r","i","c","t">>,
     <<"S","t","a","t","e">>,
     <<"G","o","v","e","r","n","a","t","e">>,
     <<"D","e","p","a","r","t","m","e","n","t">>,
     <<"O","b","l","a","s","t">>,
     <<"C","i","t","y">>,
     <<"Z","o","n","e">>,
     <<"P","r","e","f","e","c","t","u","r","e">> >>

(***************************************************************************)
(* String operations                                                       *)
(***************************************************************************)

\* s[n+1:]
Drop(s, n) == SubSeq(s, n + 1, Len(s))

\* s.startswith(w)
StartsWith(s, w) == Len(w) <= Len(s) /\ SubSeq(s, 1, Len(w)) = w

\* str.replace(w, ""): every non-overlapping occurrence of w, left to right.
RECURSIVE Replace(_, _)
Replace(s, w) ==
  IF Len(s) < Len(w) \/ Len(w) = 0 THEN s
  ELSE IF StartsWith(s, w) THEN Replace(Drop(s, Len(w)), w)
  ELSE << s[1] >> \o Replace(Tail(s), w)

\* for suffix in self.suffixes[i:]: string = string.replace(suffix, "")
RECURSIVE ReplaceAll(_, _)
ReplaceAll(s, i) ==
  IF i > Len(suffixes) THEN s ELSE ReplaceAll(Replace(s, suffixes[i]), i + 1)

\* re.sub(' +', ' ', s): every run of spaces becomes one space.
RECURSIVE CollapseSpaces(_)
CollapseSpaces(s) ==
  IF Len(s) < 2 THEN s
  ELSE IF s[1] = " " /\ s[2] = " " THEN CollapseSpaces(Tail(s))
  ELSE << s[1] >> \o CollapseSpaces(Tail(s))

\* A variant that trims both ends, as str.strip() does.
RECURSIVE StripBoth(_)
StripBoth(s) ==
  IF Len(s) > 0 /\ s[Len(s)] \in Whitespace
  THEN StripBoth(SubSeq(s, 1, Len(s) - 1))
  ELSE IF Len(s) > 0 /\ s[1] \in Whitespace
  THEN StripBoth(Tail(s))
  ELSE s

\* str.rstrip()
RECURSIVE RStrip(_)
RStrip(s) ==
  IF Len(s) > 0 /\ s[Len(s)] \in Whitespace
  THEN RStrip(SubSeq(s, 1, Len(s) - 1))
  ELSE s

\* __remove_suffix__
RemoveSuffix(s) == RStrip(CollapseSpaces(ReplaceAll(s, 1)))

\* Index of the first ")" of s at or after position i, 0 when there is none.
RECURSIVE FirstClose(_, _)
FirstClose(s, i) ==
  IF i > Len(s) THEN 0
  ELSE IF s[i] = ")" THEN i
  ELSE FirstClose(s, i + 1)

\* Length of the match of the pattern " ?\([^)]+\)" at the start of s, 0 when
\* it does not match there.  The optional space is taken only when "(" follows;
\* [^)]+ runs to the first ")" and needs at least one character.
ParenMatchLen(s) ==
  LET open == IF Len(s) >= 2 /\ s[1] = " " /\ s[2] = "(" THEN 2
              ELSE IF Len(s) >= 1 /\ s[1] = "(" THEN 1
              ELSE 0
      close == IF open = 0 THEN 0 ELSE FirstClose(s, open + 1)
  IN  IF open # 0 /\ close >= open + 2 THEN close ELSE 0

\* A variant of __remove_parens__ that removes the first parenthetical only
\* (re.sub with count=1).
RECURSIVE RemoveParensFirst(_)
RemoveParensFirst(s) ==
  IF Len(s) = 0 THEN s
  ELSE IF ParenMatchLen(s) > 0 THEN Drop(s, ParenMatchLen(s))
  ELSE << s[1] >> \o RemoveParensFirst(Tail(s))

\* __remove_parens__: re.sub(r" ?\([^)]+\)", "", string), leftmost matches,
\* scanning on after each match.
RECURSIVE RemoveParens(_)
RemoveParens(s) ==
  IF Len(s) = 0 THEN s
  ELSE LET n == ParenMatchLen(s)
       IN  IF n > 0 THEN RemoveParens(Drop(s, n))
           ELSE << s[1] >> \o RemoveParens(Tail(s))

\* Series.str.contains(needle) on one cell, for a needle without regex
\* metacharacters: needle is a substring of hay.
Contains(hay, needle) ==
  \E i \in 0..(Len(hay) - Len(needle)) : SubSeq(hay, i + 1, i + Len(needle)) = needle

\* Whether the configured codec (latin-1) encodes s.
Encodable(s) == \A i \in 1..Len(s) : s[i] \notin NonLatin1

(***************************************************************************)
(* dict: the insertion-ordered sequence of its <<key, value>> items        *)
(***************************************************************************)

\* k in d
DictHas(d, k) == \E i \in 1..Len(d) : d[i][1] = k

\* d[k]
DictGet(d, k) == d[CHOOSE i \in 1..Len(d) : d[i][1] = k][2]

\* d[k] = v
DictPut(d, k, v) ==
  IF DictHas(d, k)
  THEN [i \in 1..Len(d) |-> IF d[i][1] = k THEN << k, v >> ELSE d[i]]
  ELSE Append(d, << k, v >>)

\* d.pop(k, None)
DictPop(d, k) ==
  LET Keep(item) == item[1] # k
  IN  SelectSeq(d, Keep)

\* d.keys() as a set
DictKeys(d) == { d[i][1] : i \in 1..Len(d) }

(***************************************************************************)
(* The data the converter is constructed from                              *)
(***************************************************************************)

sVirginia      == <<"V","i","r","g","i","n","i","a">>
sWestVirginia  == <<"W","e","s","t"," ","V","i","r","g","i","n","i","a">>
sVirginiaState == <<"V","i","r","g","i","n","i","a"," ","S","t","a","t","e">>
sGeorgia       == <<"G","e","o","r","g","i","a">>
sGeorgiaUS     == <<"G","e","o","r","g","i","a"," ","(","U","S",")">>
sSindh         == <<"S","i","n","d","h">>
sSind          == <<"S","i","n","d">>
sSd            == <<"S","d">>
sFr            == <<"F","r">>
sGoa           == <<"G","o","a">>
sGoaState      == <<"G","o","a"," ","S","t","a","t","e">>
sMus           == <<"M","u",SCedilla>>
sGoaINx        == <<"G","o","a"," ","(","I","N",")"," ","(","x",")">>
sXx            == <<"X","x">>
sUS            == <<"U","S">>
sPK            == <<"P","K">>
sIN            == <<"I","N">>
sFR            == <<"F","R">>
sUnitedStates  == <<"U","n","i","t","e","d"," ","S","t","a","t","e","s">>
sPakistan      == <<"P","a","k","i","s","t","a","n">>
sIndia         == <<"I","n","d","i","a">>
sFrance        == <<"F","r","a","n","c","e">>

\* self.__geos__: the rows of the geo table in file order.  names are the
\* cells of the columns self.__geocols__ (names[1] is the column 'name');
\* country_name comes from the merge with the iso table.
geos ==
  << [names |-> << sWestVirginia >>, iso_a2 |-> sUS, country_name |-> sUnitedStates],
     [names |-> << sGeorgia >>,      iso_a2 |-> sUS, country_name |-> sUnitedStates],
     [names |-> << sVirginia >>,     iso_a2 |-> sUS, country_name |-> sUnitedStates],
     [names |-> << sSindh, sSind >>, iso_a2 |-> sPK, country_name |-> sPakistan] >>

\* The manual override store (manual_regions.csv): rows of four fields.
ManualFile ==
  [exists |-> TRUE,
   rows   |-> << << sSd, sSindh, sPakistan, sPK >>,
                 << sFr, EmptyStr, sFrance, sFR >>,
                 << sXx, sGoa, EmptyStr, EmptyStr >> >>]

\* The persisted cache stores (region_dict.csv) a session may start from: none
\* yet, or the one an earlier session wrote.
CacheFiles ==
  { [exists |-> FALSE, rows |-> << >>],
    [exists |-> TRUE,
     rows   |-> << << sFr, EmptyStr, sFrance, sFR >>,
                   << sVirginia, sVirginia, sUnitedStates, sUS >> >>] }

\* The strings region_to_country is called with.
Regions ==
  { sVirginia, sVirginiaState, sGeorgia, sGeorgiaUS, sSd, sFr, sGoa, sGoaState,
    sGoaINx, sMus, sXx }

\* What the remote service may answer to one request: a non-200 status, or
\* status 200 with the JSON field 'data', a list of candidates (the code reads
\* data[0] only).
FailStatus == [status |-> 500, data |-> << >>]
Responses ==
  { FailStatus,
    [status |-> 200, data |-> << >>],
    [status |-> 200,
     data |-> << [name |-> sSind, country_name |-> sPakistan, country_code |-> sPK] >>],
    [status |-> 200,
     data |-> << [name |-> sGoa, country_name |-> sIndia, country_code |-> sIN] >>] }

\* The values warn_region_mismatch is documented to take.
WarnLevels == { 0, 1, 2 }

(***************************************************************************)
(* Construction and teardown helpers                                       *)
(***************************************************************************)

\* A variant of the loop that passes over a row it cannot read and goes on
\* with the next.
RECURSIVE ReadRowsSkip(_, _, _)
ReadRowsSkip(rows, i, d) ==
  IF i > Len(rows) THEN d
  ELSE IF Len(rows[i]) < 4 THEN ReadRowsSkip(rows, i + 1, d)
  ELSE ReadRowsSkip(rows, i + 1,
                    DictPut(d, rows[i][1], << rows[i][2], rows[i][3], rows[i][4] >>))

\* The loop of __read_to_dict__ from row i on: a row with fewer than four
\* fields raises IndexError, which ends the loop with the rows read so far.
RECURSIVE ReadRows(_, _, _)
ReadRows(rows, i, d) ==
  IF i > Len(rows) THEN d
  ELSE IF Len(rows[i]) < 4 THEN d
  ELSE ReadRows(rows, i + 1,
                DictPut(d, rows[i][1], << rows[i][2], rows[i][3], rows[i][4] >>))

\* __read_to_dict__: a missing file raises in open() and yields the empty dict.
ReadToDict(file) == IF file.exists THEN ReadRows(file.rows, 1, << >>) ELSE << >>

\* The except branch of __read_to_dict__ was taken, so warnings.warn was
\* called: open() raised, or a row had fewer than four fields.
ReadWarned(file) ==
  \/ ~file.exists
  \/ \E i \in 1..Len(file.rows) : Len(file.rows[i]) < 4

\* for k in self.__region_dict__.keys(): self.__manual_dict__.pop(k, None)
RECURSIVE PopAll(_, _, _)
PopAll(manual_d, region_d, i) ==
  IF i > Len(region_d) THEN manual_d
  ELSE PopAll(DictPop(manual_d, region_d[i][1]), region_d, i + 1)

\* A variant of __tuple_to_list__ that leaves None as it is.
TupleToListRaw(item) == << item[1] >> \o item[2]

\* __tuple_to_list__: the key, then the three fields with None written as "".
TupleToList(item) ==
  << item[1] >> \o [j \in 1..Len(item[2]) |-> IF item[2][j] = None THEN EmptyStr
                                               ELSE item[2][j]]

\* Whether csv's writerow succeeds on the row: every field must encode.
RowEncodable(row) == \A j \in 1..Len(row) : Encodable(row[j])

\* The rows __write_dict__ leaves in the file: one per item, in dict order,
\* except the items whose writerow raised (caught, reported and skipped).
RECURSIVE WriteRows(_, _)
WriteRows(d, i) ==
  IF i > Len(d) THEN << >>
  ELSE LET row == TupleToList(d[i])
       IN  (IF RowEncodable(row) THEN << row >> ELSE << >>) \o WriteRows(d, i + 1)

\* __write_dict__: the file is opened with mode 'w' and rewritten.
WriteDict(d) == [exists |-> TRUE, rows |-> WriteRows(d, 1)]

(***************************************************************************)
(* Geo-table matcher                                                       *)
(* Every intermediate value of the Python code is a parameter of the       *)
(* operator that continues from it.                                        *)
(***************************************************************************)

\* One row of a boolean mask over the name columns: some cell satisfies it.
RowContains(row, needle) ==
  \E c \in 1..Len(row.names) : Contains(row.names[c], needle)

RowEquals(row, s) == \E c \in 1..Len(row.names) : row.names[c] = s

\* self.__geos__.loc[mask.any(axis=1)] for the str.contains mask.
GeoContaining(corrected_name) ==
  { i \in 1..Len(geos) : RowContains(geos[i], corrected_name) }

\* The rows of `matched` the mask `matched[c] == region` selects.
GeoExact(matched, region) == { i \in matched : RowEquals(geos[i], region) }

\* A variant that never narrows: the first row containing the query wins.
GeoNarrowNever(matched, exact1, exact2) == matched

\* `if len(matched) > 1:` with exact1 the first mask and exact2 the mask
\* computed when the first selects nothing.
GeoNarrow(matched, exact1, exact2) ==
  IF Cardinality(matched) > 1
  THEN IF exact1 = {}
       THEN IF exact2 # {} THEN exact2 ELSE matched
       ELSE exact1
  ELSE matched

\* The indices of the rows region_to_country_from_geo ends with in `matched`,
\* the empty set when no cell contains the suffix-stripped query.  Both exact
\* masks compare with `region`.
GeoMatched(region) ==
  LET matched == GeoContaining(RemoveSuffix(region))
  IN  GeoNarrow(matched, GeoExact(matched, region), GeoExact(matched, region))

\* The index of the first row of a non-empty set of rows (.values[0]).
FirstRow(S) == CHOOSE i \in S : \A j \in S : i <= j

\* self.__region_dict__[region] = (corrected_name, country, iso); return it.
GeoStore(cache_d, region, rec) ==
  [found |-> TRUE, rec |-> rec, cache |-> DictPut(cache_d, region, rec)]

\* The name, country and iso of a row.
GeoRecord(row) == << row.names[1], row.country_name, row.iso_a2 >>

\* region_to_country_from_geo from the rows it matched.
GeoResult(cache_d, region, matched) ==
  IF matched = {}
  THEN [found |-> FALSE, rec |-> None, cache |-> cache_d]
  ELSE GeoStore(cache_d, region, GeoRecord(geos[FirstRow(matched)]))

\* region_to_country_from_geo: found is FALSE for the return of None; on a
\* match the record is written into the cache under the query passed in.
RegionToCountryFromGeo(cache_d, region) ==
  GeoResult(cache_d, region, GeoMatched(region))

(***************************************************************************)
(* Remote search client                                                    *)
(***************************************************************************)

\* The queries region_to_country_from_API may send for `region`: the region,
\* then each suffix-stripped retry.
RECURSIVE ApiChain(_)
ApiChain(region) ==
  IF RemoveSuffix(region) # region
  THEN { region } \cup ApiChain(RemoveSuffix(region))
  ELSE { region }

\* The result of a call of region_to_country_from_API that sent no request
\* but `region`.  status is "raise" when __connect_to_endpoint__ raised on a
\* non-200 status, "none" for the return of None, "ok" for a returned tuple;
\* requests are the queries sent, in order.
ApiResult(status, rec, cache_d, region) ==
  [status |-> status, rec |-> rec, cache |-> cache_d, requests |-> << region >>]

\* data[0] found: the cache is written under the query of this request.
ApiHit(cache_d, region, rec) ==
  ApiResult("ok", rec, DictPut(cache_d, region, rec), region)

\* The result of the recursive call, with this call's request before its own.
ApiAfter(region, sub) == [sub EXCEPT !.requests = << region >> \o @]

\* region_to_country_from_API with the service answering resp[q] to query q.
RECURSIVE RegionToCountryFromAPI(_, _, _)
RegionToCountryFromAPI(cache_d, region, resp) ==
  IF resp[region].status # 200
  THEN ApiResult("raise", None, cache_d, region)
  ELSE IF Len(resp[region].data) > 0
  THEN ApiHit(cache_d, region,
              << resp[region].data[1].name, resp[region].data[1].country_name,
                 resp[region].data[1].country_code >>)
  ELSE IF RemoveSuffix(region) # region
  THEN ApiAfter(region, RegionToCountryFromAPI(cache_d, RemoveSuffix(region), resp))
  ELSE ApiResult("none", None, cache_d, region)

(***************************************************************************)
(* Cascade orchestrator                                                    *)
(***************************************************************************)

\* `if self.__warn_region_mismatch__:`
Truthy(level) == level # 0

\* What one call leaves behind.  raised: an exception left the call (ret is
\* then no record).  stage: 1 cache, 2 geo, 3 override -> geo, 4 remote ->
\* geo, 5 degraded, 6 not found anywhere.  geoCalls: the queries passed to
\* region_to_country_from_geo, in order; apiCalls: the requests sent to the
\* remote service, in order; manualLooked: self.__manual_dict__ was consulted;
\* warnings: the number of warnings.warn calls.
Outcome(key, ret, raised, stage, cache_d, errs, geoCalls, apiCalls, manualLooked, warnings) ==
  [key |-> key, ret |-> ret, raised |-> raised, stage |-> stage,
   cache |-> cache_d, errs |-> errs, geoCalls |-> geoCalls,
   apiCalls |-> apiCalls, manualLooked |-> manualLooked, warnings |-> warnings]

\* A variant of the final write that does not cache a record without country.
StoreOutFound(region, out, stage, cache_d, errs, geoCalls, apiCalls, warnings) ==
  Outcome(region, out, FALSE, stage,
          IF out[2] = None THEN cache_d ELSE DictPut(cache_d, region, out), errs,
          geoCalls, apiCalls, TRUE, warnings)

\* self.__region_dict__[region] = out; return out
StoreOut(region, out, stage, cache_d, errs, geoCalls, apiCalls, warnings) ==
  Outcome(region, out, FALSE, stage, DictPut(cache_d, region, out), errs,
          geoCalls, apiCalls, TRUE, warnings)

\* The warnings of attempt 5: one on entry, one more when nothing was found.
Warnings(level, stage) ==
  IF Truthy(level) THEN (IF stage = 6 THEN 2 ELSE 1) ELSE 0

\* A variant of attempt 5 that prefers the remote result to the override entry.
DegradeRemoteFirst(region, manual_tuple, api, cache_d, errs, level, geoCalls) ==
  IF api.status = "ok"
  THEN StoreOut(region, << None, api.rec[2], api.rec[3] >>, 5, cache_d,
                Append(errs, region), geoCalls, api.requests, Warnings(level, 5))
  ELSE IF manual_tuple[2] # None /\ manual_tuple[3] # None
  THEN StoreOut(region, << None, manual_tuple[2], manual_tuple[3] >>, 5, cache_d,
                Append(errs, region), geoCalls, api.requests, Warnings(level, 5))
  ELSE StoreOut(region, << None, None, None >>, 6, cache_d,
                Append(errs, region), geoCalls, api.requests, Warnings(level, 6))

\* A variant of attempt 5 that follows the constructor's description of
\* warn_region_mismatch: at level 2 the region is reported as not found and
\* nothing is saved.
DegradeAsDocumented(region, manual_tuple, api, cache_d, errs, level, geoCalls) ==
  IF level = 2
  THEN Outcome(region, << None, None, None >>, FALSE, 6, cache_d,
               Append(errs, region), geoCalls, api.requests, TRUE, 0)
  ELSE IF manual_tuple[2] # None /\ manual_tuple[3] # None
  THEN StoreOut(region, << None, manual_tuple[2], manual_tuple[3] >>, 5, cache_d,
                Append(errs, region), geoCalls, api.requests, Warnings(level, 5))
  ELSE IF api.status = "ok"
  THEN StoreOut(region, << None, api.rec[2], api.rec[3] >>, 5, cache_d,
                Append(errs, region), geoCalls, api.requests, Warnings(level, 5))
  ELSE StoreOut(region, << None, None, None >>, 6, cache_d,
                Append(errs, region), geoCalls, api.requests, Warnings(level, 6))

\* A variant of attempt 5 that takes an override pair of empty strings for no
\* pair at all.
DegradeSkipsEmpty(region, manual_tuple, api, cache_d, errs, level, geoCalls) ==
  IF /\ manual_tuple[2] # None /\ manual_tuple[3] # None
     /\ manual_tuple[2] # EmptyStr /\ manual_tuple[3] # EmptyStr
  THEN StoreOut(region, << None, manual_tuple[2], manual_tuple[3] >>, 5, cache_d,
                Append(errs, region), geoCalls, api.requests, Warnings(level, 5))
  ELSE IF api.status = "ok"
  THEN StoreOut(region, << None, api.rec[2], api.rec[3] >>, 5, cache_d,
                Append(errs, region), geoCalls, api.requests, Warnings(level, 5))
  ELSE StoreOut(region, << None, None, None >>, 6, cache_d,
                Append(errs, region), geoCalls, api.requests, Warnings(level, 6))

\* Attempt 5 of region_to_country and what follows it: api is the result of
\* attempt 4's region_to_country_from_API, geoCalls the geo queries so far.
Degrade(region, manual_tuple, api, cache_d, errs, level, geoCalls) ==
  IF manual_tuple[2] # None /\ manual_tuple[3] # None
  THEN StoreOut(region, << None, manual_tuple[2], manual_tuple[3] >>, 5, cache_d,
                Append(errs, region), geoCalls, api.requests, Warnings(level, 5))
  ELSE IF api.status = "ok"
  THEN StoreOut(region, << None, api.rec[2], api.rec[3] >>, 5, cache_d,
                Append(errs, region), geoCalls, api.requests, Warnings(level, 5))
  ELSE StoreOut(region, << None, None, None >>, 6, cache_d,
                Append(errs, region), geoCalls, api.requests, Warnings(level, 6))

\* Attempt 4 after region_to_country_from_geo(facebook_tuple[0]) returned g4.
Attempt4Geo(region, manual_tuple, api, g4, errs, level, geoCalls) ==
  IF g4.found
  THEN Outcome(region, g4.rec, FALSE, 4, g4.cache, errs, geoCalls,
               api.requests, TRUE, 0)
  ELSE Degrade(region, manual_tuple, api, g4.cache, errs, level, geoCalls)

\* A variant of attempt 4 that catches the transport failure and goes on to
\* attempt 5 as if nothing had been found.
Attempt4ApiCaught(region, manual_tuple, api, errs, level, geoCalls) ==
  IF api.status = "ok"
  THEN Attempt4Geo(region, manual_tuple, api,
                   RegionToCountryFromGeo(api.cache, api.rec[1]), errs, level,
                   Append(geoCalls, api.rec[1]))
  ELSE Degrade(region, manual_tuple, api, api.cache, errs, level, geoCalls)

\* Attempt 4 after region_to_country_from_API(region) ended as api.
Attempt4Api(region, manual_tuple, api, errs, level, geoCalls) ==
  IF api.status = "raise"
  THEN Outcome(region, << >>, TRUE, 4, api.cache, errs, geoCalls,
               api.requests, TRUE, 0)
  ELSE IF api.status = "ok"
  THEN Attempt4Geo(region, manual_tuple, api,
                   RegionToCountryFromGeo(api.cache, api.rec[1]), errs, level,
                   Append(geoCalls, api.rec[1]))
  ELSE Degrade(region, manual_tuple, api, api.cache, errs, level, geoCalls)

\* Attempt 4 of region_to_country, reached with the geo queries geoCalls made.
Attempt4(region, manual_tuple, cache_d, errs, resp, level, geoCalls) ==
  Attempt4Api(region, manual_tuple, RegionToCountryFromAPI(cache_d, region, resp),
              errs, level, geoCalls)

\* Attempt 3 after region_to_country_from_geo(manual_tuple[0]) returned g3.
Attempt3Geo(region, manual_tuple, g3, errs, resp, level) ==
  IF g3.found
  THEN Outcome(region, g3.rec, FALSE, 3, g3.cache, errs,
               << region, manual_tuple[1] >>, << >>, TRUE, 0)
  ELSE Attempt4(region, manual_tuple, g3.cache, errs, resp, level,
                << region, manual_tuple[1] >>)

\* Attempt 3 of region_to_country with the override entry manual_tuple.
Attempt3(region, manual_tuple, cache_d, errs, resp, level) ==
  IF manual_tuple[1] # None /\ manual_tuple[1] # EmptyStr
  THEN Attempt3Geo(region, manual_tuple,
                   RegionToCountryFromGeo(cache_d, manual_tuple[1]), errs, resp, level)
  ELSE Attempt4(region, manual_tuple, cache_d, errs, resp, level, << region >>)

\* self.__manual_dict__.get(region, (None, None))
ManualGet(manual_d, region) ==
  IF DictHas(manual_d, region) THEN DictGet(manual_d, region) ELSE << None, None >>

\* Attempt 2 after region_to_country_from_geo(region) returned g2.
Attempt2(region, g2, manual_d, errs, resp, level) ==
  IF g2.found
  THEN Outcome(region, g2.rec, FALSE, 2, g2.cache, errs, << region >>, << >>, FALSE, 0)
  ELSE Attempt3(region, ManualGet(manual_d, region), g2.cache, errs, resp, level)

\* A variant of attempt 1 that takes a cached record without country for a
\* miss and resolves the region again.
Attempt1RetryAbsent(region, cache_d, manual_d, errs, resp, level) ==
  IF DictHas(cache_d, region) /\ DictGet(cache_d, region)[2] # None
  THEN Outcome(region, DictGet(cache_d, region), FALSE, 1, cache_d, errs,
               << >>, << >>, FALSE, 0)
  ELSE Attempt2(region, RegionToCountryFromGeo(cache_d, region), manual_d, errs,
                resp, level)

\* A variant of attempt 1 that asks the geo matcher before it looks into the
\* cache.
Attempt1GeoFirst(region, cache_d, manual_d, errs, resp, level) ==
  IF RegionToCountryFromGeo(cache_d, region).found
  THEN Outcome(region, RegionToCountryFromGeo(cache_d, region).rec, FALSE, 2,
               RegionToCountryFromGeo(cache_d, region).cache, errs,
               << region >>, << >>, FALSE, 0)
  ELSE IF DictHas(cache_d, region)
  THEN Outcome(region, DictGet(cache_d, region), FALSE, 1, cache_d, errs,
               << region >>, << >>, FALSE, 0)
  ELSE Attempt3(region, ManualGet(manual_d, region), cache_d, errs, resp, level)

\* region_to_country after the parentheticals were removed.
Attempt1(region, cache_d, manual_d, errs, resp, level) ==
  IF DictHas(cache_d, region)
  THEN Outcome(region, DictGet(cache_d, region), FALSE, 1, cache_d, errs,
               << >>, << >>, FALSE, 0)
  ELSE Attempt2(region, RegionToCountryFromGeo(cache_d, region), manual_d, errs,
                resp, level)

\* region_to_country(s) from the state (cache_d, manual_d, errs), with the
\* remote service answering resp[q] to query q.
RegionToCountry(s, cache_d, manual_d, errs, resp, level) ==
  Attempt1(RemoveParens(s), cache_d, manual_d, errs, resp, level)

(***************************************************************************)
(* State                                                                   *)
(***************************************************************************)

VARIABLES
  region_dict,      \* self.__region_dict__, the cache table
  manual_dict,      \* self.__manual_dict__, the manual override table
  start_dict_len,   \* self.__start_dict_len__
  error_regions,    \* self.error_regions
  warn,             \* self.__warn_region_mismatch__
  disk,             \* the file at self.__dict_path__ (region_dict.csv)
  pc,               \* "open" from __init__ to __del__, then "closed"
  ncalls,           \* region_to_country calls made so far
  last,             \* the last region_to_country call: its argument, the
                    \* answers the remote service gave it, and its outcome
  fin,              \* the argument of the one function a run of SpecLoad,
                    \* SpecSuffix or SpecApi studies on its own
  fout              \* and what that function has produced

vars == << region_dict, manual_dict, start_dict_len, error_regions, warn, disk,
           pc, ncalls, last, fin, fout >>

\* Calls per session.
MaxCalls == 2

\* `last` before any call.
NoCall ==
  [input |-> << >>, resp |-> << >>, key |-> << >>, ret |-> << >>, raised |-> FALSE,
   stage |-> 0, geoCalls |-> << >>, apiCalls |-> << >>, manualLooked |-> FALSE,
   warnings |-> 0]

\* The elements of a sequence.
Range(seq) == { seq[i] : i \in 1..Len(seq) }

\* __init__: both stores are read, the keys the cache holds are dropped from
\* the override table, and the cache's size is noted.
Init ==
  \E file \in CacheFiles, level \in WarnLevels :
    /\ disk = file
    /\ region_dict = ReadToDict(file)
    /\ manual_dict = PopAll(ReadToDict(ManualFile), ReadToDict(file), 1)
    /\ start_dict_len = Len(ReadToDict(file))
    /\ error_regions = << >>
    /\ warn = level
    /\ pc = "open"
    /\ ncalls = 0
    /\ last = NoCall
    /\ fin = << >>
    /\ fout = << >>

\* One call region_to_country(s); the remote service is free to answer each
\* query of the call as it likes.  A raised exception leaves the converter
\* with what had been written before it.
Call ==
  /\ pc = "open"
  /\ ncalls < MaxCalls
  /\ \E s \in Regions :
       \E resp \in [ApiChain(RemoveParens(s)) -> Responses] :
         \E out \in { RegionToCountry(s, region_dict, manual_dict, error_regions,
                                      resp, warn) } :
           /\ region_dict' = out.cache
           /\ error_regions' = out.errs
           /\ last' = [input |-> s,
                       resp |-> [q \in Range(out.apiCalls) |-> resp[q]],
                       key |-> out.key, ret |-> out.ret, raised |-> out.raised,
                       stage |-> out.stage, geoCalls |-> out.geoCalls,
                       apiCalls |-> out.apiCalls,
                       manualLooked |-> out.manualLooked,
                       warnings |-> out.warnings]
  /\ ncalls' = ncalls + 1
  /\ UNCHANGED << manual_dict, start_dict_len, warn, disk, pc, fin, fout >>

\* __del__: the cache is written back only if it has grown since __init__.
Teardown ==
  /\ pc = "open"
  /\ pc' = "closed"
  /\ disk' = IF Len(region_dict) > start_dict_len THEN WriteDict(region_dict) ELSE disk
  /\ UNCHANGED << region_dict, manual_dict, start_dict_len, error_regions, warn,
                  ncalls, last, fin, fout >>

Next == Call \/ Teardown

Spec == Init /\ [][Next]_vars

(***************************************************************************)
(* __read_to_dict__ on its own                                             *)
(***************************************************************************)

\* The converter's variables while one function is studied on its own.
SessionIdle ==
  /\ region_dict = << >>
  /\ manual_dict = << >>
  /\ start_dict_len = 0
  /\ error_regions = << >>
  /\ warn = 1
  /\ disk = [exists |-> FALSE, rows |-> << >>]
  /\ ncalls = 0
  /\ last = NoCall

\* Rows a store may hold: well-formed ones, two of them under the same key,
\* a row of one field, a row of three fields and a blank line.
StoreRows ==
  { << sFr, EmptyStr, sFrance, sFR >>,
    << sVirginia, sVirginia, sUnitedStates, sUS >>,
    << sFr, sFr, sFrance, sFR >>,
    << sSd >>,
    << sSd, sSindh, sPakistan >>,
    << >> }

\* Rows per store.
MaxRows == 3

\* The stores __read_to_dict__ is given: a path without file, or a file of up
\* to MaxRows rows.
Stores ==
  { [exists |-> FALSE, rows |-> << >>] }
    \cup { [exists |-> TRUE, rows |-> rows] :
             rows \in UNION { [1..n -> StoreRows] : n \in 0..MaxRows } }

InitLoad ==
  /\ SessionIdle
  /\ pc = "load"
  /\ fin \in Stores
  /\ fout = << >>

\* __read_to_dict__(path) returns; the constructor goes on.
Load ==
  /\ pc = "load"
  /\ fout' = [dict |-> ReadToDict(fin), warned |-> ReadWarned(fin)]
  /\ pc' = "loaded"
  /\ UNCHANGED << region_dict, manual_dict, start_dict_len, error_regions, warn,
                  disk, ncalls, last, fin >>

NextLoad == Load

SpecLoad == InitLoad /\ [][NextLoad]_vars

(***************************************************************************)
(* __remove_suffix__ on its own                                            *)
(***************************************************************************)

\* Pieces the arguments of __remove_suffix__ are put together from: a letter,
\* a space, a tab, the suffix words "City" and "Zone" whole, halves of "City"
\* and halves of "Region".
Fragments ==
  { <<"a">>, <<" ">>, <<"\t">>,
    <<"C","i">>, <<"t","y">>, <<"C","i","t","y">>,
    <<"R","e","g">>, <<"i","o","n">>, <<"Z","o","n","e">> }

\* Pieces per argument.
MaxParts == 4

\* parts[i] followed by the pieces after it.
RECURSIVE Concat(_, _)
Concat(parts, i) ==
  IF i > Len(parts) THEN << >> ELSE parts[i] \o Concat(parts, i + 1)

\* The strings of up to n pieces.
Strings(n) ==
  { Concat(parts, 1) : parts \in UNION { [1..k -> Fragments] : k \in 0..n } }

InitSuffix ==
  /\ SessionIdle
  /\ pc = "strip"
  /\ fin \in Strings(MaxParts)
  /\ fout = << >>

\* __remove_suffix__(fin) returns.
Strip ==
  /\ pc = "strip"
  /\ fout' = RemoveSuffix(fin)
  /\ pc' = "stripped"
  /\ UNCHANGED << region_dict, manual_dict, start_dict_len, error_regions, warn,
                  disk, ncalls, last, fin >>

NextSuffix == Strip

SpecSuffix == InitSuffix /\ [][NextSuffix]_vars

(***************************************************************************)
(* region_to_country_from_API on its own, request by request               *)
(***************************************************************************)

\* Pieces per query.
MaxApiParts == 3

\* fout while the client runs: how the call ended ("running" until it has),
\* the tuple it returned, and the queries requested so far.
ApiState(status, rec, requests) ==
  [status |-> status, rec |-> rec, requests |-> requests]

\* A variant of the retry that recurses on the query it was given.
ApiRetrySame(region, region_drop_suffix) == region

\* The argument of the recursive call: region_drop_suffix.
ApiRetryQuery(region, region_drop_suffix) == region_drop_suffix

InitApi ==
  /\ region_dict = << >>
  /\ manual_dict = << >>
  /\ start_dict_len = 0
  /\ error_regions = << >>
  /\ warn = 1
  /\ disk = [exists |-> FALSE, rows |-> << >>]
  /\ ncalls = 0
  /\ last = NoCall
  /\ pc = "api"
  /\ fin \in Strings(MaxApiParts)
  /\ fout = ApiState("running", None, << >>)

\* __connect_to_endpoint__ raises on a status other than 200.
ApiRaise ==
  \E r \in Responses :
    /\ r.status # 200
    /\ fout' = ApiState("raise", None, Append(fout.requests, fin))
    /\ pc' = "api_done"
    /\ UNCHANGED << region_dict, fin >>

\* len(data) > 0: data[0] is written under the query and returned.
ApiReturn ==
  \E r \in Responses :
    /\ r.status = 200
    /\ Len(r.data) > 0
    /\ region_dict' = DictPut(region_dict, fin,
                              << r.data[1].name, r.data[1].country_name,
                                 r.data[1].country_code >>)
    /\ fout' = ApiState("ok", << r.data[1].name, r.data[1].country_name,
                                 r.data[1].country_code >>,
                        Append(fout.requests, fin))
    /\ pc' = "api_done"
    /\ UNCHANGED fin

\* No candidate and a suffix to drop: the recursive call.
ApiRetry ==
  \E r \in Responses :
    /\ r.status = 200
    /\ Len(r.data) = 0
    /\ RemoveSuffix(fin) # fin
    /\ fin' = ApiRetryQuery(fin, RemoveSuffix(fin))
    /\ fout' = ApiState("running", None, Append(fout.requests, fin))
    /\ UNCHANGED << region_dict, pc >>

\* No candidate and no suffix left to drop: return None.
ApiNone ==
  \E r \in Responses :
    /\ r.status = 200
    /\ Len(r.data) = 0
    /\ RemoveSuffix(fin) = fin
    /\ fout' = ApiState("none", None, Append(fout.requests, fin))
    /\ pc' = "api_done"
    /\ UNCHANGED << region_dict, fin >>

\* One activation of region_to_country_from_API(fin): the request and what
\* the code does with the response.
ApiRequest ==
  /\ pc = "api"
  /\ (ApiRaise \/ ApiReturn \/ ApiRetry \/ ApiNone)
  /\ UNCHANGED << manual_dict, start_dict_len, error_regions, warn, disk, ncalls,
                  last >>

NextApi == ApiRequest

\* A call that was begun runs on: the recursion is ordinary sequential code.
SpecApi == InitApi /\ [][NextApi]_vars /\ WF_vars(ApiRequest)

(***************************************************************************)
(* Properties                                                              *)
(***************************************************************************)

\* The step is a call of region_to_country.
CallStep == ncalls' = ncalls + 1

\* The step is the teardown.
TeardownStep == pc = "open" /\ pc' = "closed"

\* A field of a record that is present: neither None nor the empty string
\* that encodes an absent field in the persisted store.
Present(x) == x # None /\ x # EmptyStr

\* The record without any field.
AllAbsent == << None, None, None >>

\* C1: two calls in a row on the same string return the same record, and the
\* second is served from the cache: it invokes neither the geo-table matcher
\* nor the remote service.
C1_SecondCallFromCache ==
  [][(CallStep /\ ncalls >= 1 /\ last'.input = last.input
        /\ ~last.raised /\ ~last'.raised)
     => /\ last'.ret = last.ret
        /\ last'.stage = 1
        /\ last'.geoCalls = << >>
        /\ last'.apiCalls = << >>]_vars

\* C2: after a call that missed the cache and returned, the cache maps the
\* parenthetical-stripped region to exactly the record returned.
C2_ReturnedRecordCached ==
  (ncalls >= 1 /\ ~last.raised /\ last.stage # 1)
  => /\ DictHas(region_dict, RemoveParens(last.input))
     /\ DictGet(region_dict, RemoveParens(last.input)) = last.ret

\* C3: every cached record with a corrected name has a country name and an
\* iso code, and they are those of a geo-table row with that canonical name.
C3_CachedNamesGeoValidated ==
  \A i \in 1..Len(region_dict) :
    Present(region_dict[i][2][1])
    => /\ Present(region_dict[i][2][2])
       /\ Present(region_dict[i][2][3])
       /\ \E r \in 1..Len(geos) :
            /\ geos[r].names[1] = region_dict[i][2][1]
            /\ geos[r].country_name = region_dict[i][2][2]
            /\ geos[r].iso_a2 = region_dict[i][2][3]

\* C4: the cache only grows: a step removes no key and replaces no record
\* stored under a key already present.
C4_CacheMonotone ==
  [][\A k \in DictKeys(region_dict) :
       /\ DictHas(region_dict', k)
       /\ DictGet(region_dict', k) = DictGet(region_dict, k)]_vars

\* C5: a call in which the remote service answered a request with a
\* non-success status raises at that request (it is the last one sent) and
\* leaves the cache and the error-region list as they were before the call.
C5_TransportFailureNoWrite ==
  [][(CallStep /\ \E q \in DOMAIN last'.resp : last'.resp[q].status # 200)
     => /\ last'.raised
        /\ last'.resp[last'.apiCalls[Len(last'.apiCalls)]].status # 200
        /\ \A j \in 1..(Len(last'.apiCalls) - 1) :
             last'.resp[last'.apiCalls[j]].status = 200
        /\ region_dict' = region_dict
        /\ error_regions' = error_regions]_vars

\* C5 happens: a suffix-stripped retry was answered with a non-success status.
C5_Witness ==
  /\ last.raised
  /\ Len(last.apiCalls) = 2
  /\ last.resp[last.apiCalls[2]].status # 200

\* C6: a call whose parenthetical-stripped region is a key of the cache
\* returns the cached record as it is, invokes neither the geo matcher nor the
\* remote service, does not consult the override table, and leaves the cache
\* and the error-region list unchanged.
C6_CacheHitVerbatim ==
  [][(CallStep /\ DictHas(region_dict, RemoveParens(last'.input)))
     => /\ ~last'.raised
        /\ last'.ret = DictGet(region_dict, RemoveParens(last'.input))
        /\ last'.geoCalls = << >>
        /\ last'.apiCalls = << >>
        /\ ~last'.manualLooked
        /\ region_dict' = region_dict
        /\ error_regions' = error_regions]_vars

\* C6 happens: a record without any field, cached by an earlier call of the
\* session, was returned from the cache.
C6_Witness ==
  /\ ncalls = 2
  /\ last.stage = 1
  /\ last.ret = AllAbsent
  /\ DictGet(region_dict, RemoveParens(last.input)) = AllAbsent

\* The remote service answered the last request of the call with success and
\* either no candidate or a candidate whose name the geo table does not match.
NoValidatedRemoteMatch(call) ==
  /\ Len(call.apiCalls) > 0
  /\ \A q \in DOMAIN call.resp : call.resp[q].status = 200
  /\ \/ call.resp[call.apiCalls[Len(call.apiCalls)]].data = << >>
     \/ GeoMatched(call.resp[call.apiCalls[Len(call.apiCalls)]].data[1].name) = {}

\* C7: for a region that is not cached, has no geo-table match and has an
\* override entry with an empty corrected name and the pair (c, i), a call in
\* which stage 4 gives no geo-validated match returns (absent, c, i), appends
\* the region to the error-region list and caches (absent, c, i) under it.
C7_DegradeToOverride ==
  [][(/\ CallStep
      /\ ~DictHas(region_dict, RemoveParens(last'.input))
      /\ GeoMatched(RemoveParens(last'.input)) = {}
      /\ DictHas(manual_dict, RemoveParens(last'.input))
      /\ DictGet(manual_dict, RemoveParens(last'.input))[1] = EmptyStr
      /\ NoValidatedRemoteMatch(last'))
     => /\ ~last'.raised
        /\ last'.ret = << None, DictGet(manual_dict, RemoveParens(last'.input))[2],
                          DictGet(manual_dict, RemoveParens(last'.input))[3] >>
        /\ error_regions' = Append(error_regions, RemoveParens(last'.input))
        /\ DictHas(region_dict', RemoveParens(last'.input))
        /\ DictGet(region_dict', RemoveParens(last'.input)) = last'.ret]_vars

\* C7 happens: the override entry of "Fr" supplied (France, FR) although the
\* remote service had returned a candidate of another country.
C7_Witness ==
  /\ last.key = sFr
  /\ last.stage = 5
  /\ last.ret = << None, sFrance, sFR >>
  /\ Len(last.resp[sFr].data) > 0
  /\ error_regions[Len(error_regions)] = sFr

\* C8: for a region with no cache entry, no geo-table match and no override
\* entry, a call in which the remote service returns zero candidates for the
\* region and for every retry returns (absent, absent, absent), appends the
\* region to the error-region list and caches the all-absent record under it.
C8_FullFailure ==
  [][(/\ CallStep
      /\ ~DictHas(region_dict, RemoveParens(last'.input))
      /\ GeoMatched(RemoveParens(last'.input)) = {}
      /\ ~DictHas(manual_dict, RemoveParens(last'.input))
      /\ Len(last'.apiCalls) > 0
      /\ \A q \in DOMAIN last'.resp :
           last'.resp[q].status = 200 /\ last'.resp[q].data = << >>)
     => /\ ~last'.raised
        /\ last'.ret = AllAbsent
        /\ error_regions' = Append(error_regions, RemoveParens(last'.input))
        /\ DictHas(region_dict', RemoveParens(last'.input))
        /\ DictGet(region_dict', RemoveParens(last'.input)) = AllAbsent
        /\ last'.apiCalls[Len(last'.apiCalls)]
             = RemoveSuffix(last'.apiCalls[Len(last'.apiCalls)])]_vars

\* C8 happens: "Goa State" failed after the retry with "Goa".
C8_Witness ==
  /\ last.key = sGoaState
  /\ last.apiCalls = << sGoaState, sGoa >>
  /\ last.ret = AllAbsent
  /\ DictHas(region_dict, sGoaState)

\* A field as the persisted store holds it: an absent field is the empty string.
Persisted(x) == IF x = None THEN EmptyStr ELSE x

\* The row of the persisted store for item i of the cache.
RowOf(d, i) ==
  << d[i][1], Persisted(d[i][2][1]), Persisted(d[i][2][2]), Persisted(d[i][2][3]) >>

\* The cache holds a key that the store it was loaded from did not.
GainedKey == \E k \in DictKeys(region_dict) : k \notin DictKeys(ReadToDict(disk))

\* C9 as stated: at teardown after a session in which the cache gained a key,
\* the persisted store holds exactly one four-field row for every key of the
\* cache, absent fields as empty strings; if the cache has not grown, the
\* store is unchanged.
C9_EveryKeyPersisted ==
  [][TeardownStep
     => IF GainedKey
        THEN /\ disk'.exists
             /\ \A i \in 1..Len(region_dict) :
                  Cardinality({ j \in 1..Len(disk'.rows) :
                                  disk'.rows[j][1] = region_dict[i][1] }) = 1
                  /\ \E j \in 1..Len(disk'.rows) : disk'.rows[j] = RowOf(region_dict, i)
        ELSE disk' = disk]_vars

\* C9 amended: at teardown after a session in which the cache gained a key,
\* the persisted store holds exactly one four-field row for every key of the
\* cache whose row the configured encoding can encode, absent fields as empty
\* strings, and no other row; the rows that cannot be encoded are skipped.  If
\* the cache has not grown, the store is unchanged.
C9_EncodableKeysPersisted ==
  [][TeardownStep
     => IF GainedKey
        THEN /\ disk'.exists
             /\ \A i \in 1..Len(region_dict) :
                  Cardinality({ j \in 1..Len(disk'.rows) :
                                  disk'.rows[j] = RowOf(region_dict, i) })
                    = IF RowEncodable(RowOf(region_dict, i)) THEN 1 ELSE 0
             /\ \A j \in 1..Len(disk'.rows) :
                  \E i \in 1..Len(region_dict) : disk'.rows[j] = RowOf(region_dict, i)
        ELSE disk' = disk]_vars

\* C9 happens: the session is closed, the store was rewritten with a row
\* whose absent fields are empty strings, and the row of "Mu<s-cedilla>"
\* was skipped.
C9_Witness ==
  /\ pc = "closed"
  /\ DictHas(region_dict, sMus)
  /\ DictHas(region_dict, sGoa)
  /\ DictGet(region_dict, sGoa) = AllAbsent
  /\ disk.rows = << << sGoa, EmptyStr, EmptyStr, EmptyStr >> >>

\* C10: region_to_country(s) and region_to_country(strip_parentheticals(s))
\* from the same state, with the remote service answering alike, use the same
\* cache key, return the same record and leave the same cache and
\* error-region list.
C10_ParensEquivalent ==
  [][CallStep
     => /\ RemoveParens(RemoveParens(last'.input)) = last'.key
        /\ \E twin \in { RegionToCountry(RemoveParens(last'.input), region_dict,
                                        manual_dict, error_regions, last'.resp, warn) } :
             /\ twin.key = last'.key
             /\ twin.ret = last'.ret
             /\ twin.raised = last'.raised
             /\ twin.cache = region_dict'
             /\ twin.errs = error_regions']_vars

\* C10 happens: "Georgia (US)" was resolved under the key "Georgia".
C10_Witness ==
  /\ last.input = sGeorgiaUS
  /\ last.key = sGeorgia
  /\ last.stage = 2
  /\ DictHas(region_dict, sGeorgia)
  /\ ~DictHas(region_dict, sGeorgiaUS)

Malformed(file) ==
  \/ ~file.exists
  \/ \E i \in 1..Len(file.rows) : Len(file.rows[i]) < 4

\* The number of rows before the first row of fewer than four fields.
GoodPrefix(rows) ==
  IF \A i \in 1..Len(rows) : Len(rows[i]) >= 4 THEN Len(rows)
  ELSE (CHOOSE i \in 1..Len(rows) :
          /\ Len(rows[i]) < 4
          /\ \A j \in 1..(i - 1) : Len(rows[j]) >= 4) - 1

\* C12 as stated: loading a store that is missing or has a malformed row
\* warns and yields the empty table, no row of the malformed store kept.
C12_MalformedStoreEmpty ==
  (pc = "loaded" /\ Malformed(fin)) => (fout.warned /\ fout.dict = << >>)

\* C12, amended: loading a store that is missing or has a malformed row
\* returns (is not fatal) and warns, and the table it yields holds exactly
\* the rows before the first malformed row, a later row of a key replacing an
\* earlier one; it is empty when the store is missing or its first row is
\* malformed.  A well-formed store loads without warning.
C12_RowsBeforeMalformedKept ==
  pc = "loaded"
    => /\ fout.warned <=> Malformed(fin)
       /\ DictKeys(fout.dict)
            = { fin.rows[i][1] : i \in 1..GoodPrefix(fin.rows) }
       /\ Len(fout.dict) = Cardinality(DictKeys(fout.dict))
       /\ \A i \in 1..GoodPrefix(fin.rows) :
            (\A j \in (i + 1)..GoodPrefix(fin.rows) : fin.rows[j][1] # fin.rows[i][1])
              => DictGet(fout.dict, fin.rows[i][1])
                   = << fin.rows[i][2], fin.rows[i][3], fin.rows[i][4] >>
       /\ (~fin.exists \/ GoodPrefix(fin.rows) = 0) => fout.dict = << >>

\* C12 happens: a store whose second row has one field was loaded with a
\* warning, and its first row is in the table.
C12_Witness ==
  /\ pc = "loaded"
  /\ fin.exists
  /\ Len(fin.rows) = 3
  /\ Len(fin.rows[1]) = 4
  /\ Len(fin.rows[2]) = 1
  /\ Len(fin.rows[3]) = 4
  /\ fout.warned
  /\ Len(fout.dict) = 1

\* C13: strip_administrative_suffix is idempotent: applied to its own output
\* it returns that output, also when removing one suffix word spliced the
\* text around it into another suffix word.
C13_StripIdempotent ==
  pc = "stripped" => RemoveSuffix(fout) = fout

\* No suffix word occurs in s.
NoSuffixWord(s) == \A i \in 1..Len(suffixes) : ~Contains(s, suffixes[i])

\* s has no two spaces in a row and does not end in whitespace.
Tidy(s) ==
  /\ \A i \in 1..(Len(s) - 1) : ~(s[i] = " " /\ s[i + 1] = " ")
  /\ Len(s) > 0 => s[Len(s)] \notin Whitespace

\* C14 as stated: strip_administrative_suffix returns its input unchanged,
\* character for character, whenever no suffix word occurs in it, repeated or
\* trailing whitespace included.
C14_NoSuffixUnchanged ==
  (pc = "stripped" /\ NoSuffixWord(fin)) => fout = fin

\* C14, amended: when no suffix word occurs in the input, the result is the
\* input with every run of spaces collapsed to one space and the trailing
\* whitespace removed; it is the input, character for character, when the
\* input has no repeated space and no trailing whitespace.
C14_NoSuffixTidied ==
  (pc = "stripped" /\ NoSuffixWord(fin))
    => /\ Tidy(fout)
       /\ fout = RStrip(CollapseSpaces(fin))
       /\ Tidy(fin) => fout = fin

\* C14 happens: " a a", which has no suffix word, no repeated space and no
\* trailing whitespace, came back as it was, its leading space included.
C14_Witness ==
  /\ pc = "stripped"
  /\ fin = << " ", "a", " ", "a" >>
  /\ fout = fin

\* C15: the stages of one call run in strict priority order and a hit ends
\* the call.  The geo matcher is invoked only after a cache miss, first on the
\* cleaned region; the override table is consulted only after the geo matcher
\* found nothing for the cleaned region; the remote service is called only
\* after the cache, the geo matcher on the cleaned region and the geo retry on
\* the override's corrected name (when it has one) have all failed; a call
\* that ends in stage 5 or the full failure has sent each query to the remote
\* service once, stage 5 reusing what stages 3 and 4 retained.
C15_StagesInOrder ==
  [][CallStep
     => /\ last'.geoCalls # << >>
             => (~DictHas(region_dict, last'.key) /\ last'.geoCalls[1] = last'.key)
        /\ last'.manualLooked
             => /\ ~DictHas(region_dict, last'.key)
                /\ last'.geoCalls # << >>
                /\ GeoMatched(last'.key) = {}
        /\ last'.apiCalls # << >>
             => /\ last'.manualLooked
                /\ last'.apiCalls[1] = last'.key
                /\ (DictHas(manual_dict, last'.key)
                    /\ Present(DictGet(manual_dict, last'.key)[1]))
                     => /\ Len(last'.geoCalls) >= 2
                        /\ last'.geoCalls[2] = DictGet(manual_dict, last'.key)[1]
                        /\ GeoMatched(DictGet(manual_dict, last'.key)[1]) = {}
        /\ last'.stage = 1 => (last'.geoCalls = << >> /\ ~last'.manualLooked)
        /\ last'.stage = 2
             => (last'.geoCalls = << last'.key >> /\ ~last'.manualLooked)
        /\ last'.stage \in {1, 2, 3} => last'.apiCalls = << >>
        /\ last'.stage \in {5, 6}
             => /\ Len(last'.apiCalls) >= 1
                /\ \A i, j \in 1..Len(last'.apiCalls) :
                     i < j => last'.apiCalls[i] # last'.apiCalls[j]]_vars

\* C15 happens: "Xx" missed the cache and the geo table, its override's
\* corrected name "Goa" missed the geo table too, the remote service was then
\* asked once and named "Goa" again, and the call ended in stage 5.
C15_Witness ==
  /\ last.key = sXx
  /\ last.stage = 5
  /\ last.manualLooked
  /\ last.geoCalls = << sXx, sGoa, sGoa >>
  /\ last.apiCalls = << sXx >>

\* The geo rows with a name column that contains `stripped`.
CandidatesOf(stripped) ==
  { i \in 1..Len(geos) :
      \E c \in 1..Len(geos[i].names) : Contains(geos[i].names[c], stripped) }

\* The geo rows with a name column that contains the suffix-stripped query.
Candidates(q) == CandidatesOf(RemoveSuffix(q))

\* The rows of cands with a name column equal to the query as it was passed.
ExactOf(cands, q) ==
  { i \in cands : \E c \in 1..Len(geos[i].names) : geos[i].names[c] = q }

\* The rows C16 lets the matcher choose from, cands being the candidates.
SelectedOf(cands, q) ==
  IF Cardinality(cands) > 1 /\ ExactOf(cands, q) # {}
  THEN ExactOf(cands, q)
  ELSE cands

Selected(q) == SelectedOf(Candidates(q), q)

C17_ApiTerminates ==
  /\ [][/\ (pc = "api" /\ pc' = "api")
             => /\ fin' = RemoveSuffix(fin)
                /\ fin' # fin
                /\ Len(fin') < Len(fin)
                /\ fout'.requests = Append(fout.requests, fin)
                /\ region_dict' = region_dict
        /\ (pc = "api" /\ pc' = "api_done" /\ fout'.status = "ok")
             => /\ fout'.requests = Append(fout.requests, fin)
                /\ fin' = fin
                /\ DictKeys(region_dict') = { fin }
                /\ DictGet(region_dict', fin) = fout'.rec
        /\ (pc = "api" /\ pc' = "api_done" /\ fout'.status = "none")
             => /\ RemoveSuffix(fin) = fin
                /\ region_dict' = << >>]_vars
  /\ <>(pc = "api_done")

\* C17 happens: every request succeeded without candidate; "RegZoneion" was
\* retried as "Region" and then as "", where stripping changes nothing, and
\* the client reported not-found.
C17_Witness ==
  /\ pc = "api_done"
  /\ fout.status = "none"
  /\ fout.requests = << <<"R","e","g","Z","o","n","e","i","o","n">>,
                        <<"R","e","g","i","o","n">>, << >> >>

\* C18: the error-region list holds, from the call on and so at the end of
\* the session, every region for which a call returned a record without a
\* geo-validated corrected name (a degraded record or the record without
\* fields), regions answered from a cached unresolved record included; and a
\* region is added to the list only by a call that reached stage 5 or the
\* full failure.  Nothing is ever taken off the list.
C18_ErrorListComplete ==
  [][/\ (CallStep /\ ~last'.raised /\ ~Present(last'.ret[1]))
          => last'.key \in Range(error_regions')
     /\ (error_regions' # error_regions)
          => /\ CallStep
             /\ last'.stage \in {5, 6}
             /\ error_regions' = Append(error_regions, last'.key)]_vars

\* The answer the remote service gave to the last request of the call.
LastResponse(call) == call.resp[call.apiCalls[Len(call.apiCalls)]]

\* C19: in stage 5 the override wins.  A call that ends in stage 5 or the
\* full failure returns a record whose corrected name is absent; when the
\* cleaned region has an override entry, the record's country and ISO code
\* are the entry's, empty strings included, whatever candidate the remote
\* service returned; the remote candidate's pair is returned only when the
\* region has no override entry.
C19_OverrideFirst ==
  [][(CallStep /\ last'.stage \in {5, 6})
     => /\ last'.ret[1] = None
        /\ DictHas(manual_dict, last'.key)
             => /\ last'.stage = 5
                /\ last'.ret = << None, DictGet(manual_dict, last'.key)[2],
                                  DictGet(manual_dict, last'.key)[3] >>
        /\ (~DictHas(manual_dict, last'.key) /\ last'.stage = 5)
             => /\ Len(LastResponse(last').data) > 0
                /\ last'.ret = << None, LastResponse(last').data[1].country_name,
                                  LastResponse(last').data[1].country_code >>]_vars

\* C19 happens: "Xx" has an override entry with empty country and ISO code,
\* the remote service returned the candidate (Goa, India, IN), and the call
\* returned (absent, "", "").
C19_Witness ==
  /\ last.key = sXx
  /\ last.stage = 5
  /\ Len(last.resp[sXx].data) > 0
  /\ last.resp[sXx].data[1].country_name = sIndia
  /\ last.ret = << None, EmptyStr, EmptyStr >>

\* C20: persisting the cache at teardown and loading it at the next
\* construction is a round trip: for every key of the cache, the record
\* region_to_country returns from the reloaded cache equals the record held
\* in memory before persisting, an absent field being absent again after the
\* reload.
C20_PersistReloadRoundTrip ==
  [][(TeardownStep /\ disk' # disk)
     => \E reloaded \in { ReadToDict(disk') } :
          \A k \in DictKeys(region_dict) :
            /\ DictHas(reloaded, k)
            /\ RegionToCountry(k, reloaded,
                               PopAll(ReadToDict(ManualFile), reloaded, 1),
                               << >>, << >>, warn).ret
                 = DictGet(region_dict, k)]_vars

=============================================================================
